---- MODULE Spec2Model ----
(***************************************************************************)
(* A state-machine model of the fetch-cache-retry component                *)
(* (src/scripts/fred_config.py) and of the paginated report builder        *)
(* (src/scripts/pdf_report.py).                                            *)
(*                                                                         *)
(* Python strings are sequences of one-character strings, so that string   *)
(* concatenation, sorting and file-name derivation are computed and not    *)
(* assumed.  None is the one-element sequence NoneVal, which is no string  *)
(* over the alphabet.                                                      *)
(***************************************************************************)
EXTENDS Integers, Sequences, FiniteSets, TLC

VARIABLES
    \* ---- fetch_fred_data: one call at a time (single-threaded) ----
    pc,          \* position of the current call of fetch_fred_data
    req,         \* the arguments of the current call
    cache_file,  \* local cache_file of the current call
    idx,         \* position of the for loop over series_ids (1-based)
    attempt,     \* loop variable of the retry loop, range(max_retries)
    data,        \* local DataFrame being assembled
    calls,       \* fred.get_series calls made by the current call
    sleeps,      \* time.sleep(1) calls made by the current call
    got,         \* what each get_series call that succeeded delivered (after resampling)
    result,      \* the value returned by the current call
    via,         \* how the current call went: "hit", "readerr", "nofile", "nocache"
    wrote,       \* outcome of the cache write of the current call
    files,       \* the file system under results_dir: path -> content
    files0,      \* the file system when the current call started
    written,     \* path -> the table the last completed write put there
    prev,        \* summary of the call that returned last
    session,     \* start_date, frequency and save_format of the run's calls
    \* ---- get_cache_filename applied to two requests ----
    keyIn,       \* the two requests
    keyOut,      \* the cache files derived for them, <<>> before
    \* ---- create_report ----
    rpc,         \* position of create_report
    rin,         \* its arguments: sections and report_title
    gen,         \* the PDFReportGenerator objects: gen[1] is pdf, gen[2] final_pdf
    heap,        \* the list objects the generators' sections fields refer to
    sidx,        \* position of the for loop over sections (1-based)
    output,      \* the document at output_filename
    \* ---- one PDFReportGenerator and the calls of its methods ----
    obj,         \* the generator, <<>> before it is made
    before,      \* the generator as it was when the last call started
    call,        \* the last call: its method, its row argument, its number
    secs         \* the list object of the generator's sections field

fvars == <<pc, req, cache_file, idx, attempt, data, calls, sleeps, got, result,
           via, wrote, files, files0, written, prev, session>>

kvars == <<keyIn, keyOut>>

rvars == <<rpc, rin, gen, heap, sidx, output>>

gvars == <<obj, before, call, secs>>

vars == <<fvars, kvars, rvars, gvars>>

---------------------------------------------------------------------------
(* Bounds of the model *)

\* dates are 1..MaxDate (days)
MaxDate == 2

---------------------------------------------------------------------------
(* Python values *)

NoneVal == <<"<None>">>

\* bool(x) for x a str or None
Truthy(x) == x # NoneVal /\ x # <<>>

\* x or y
Or(x, y) == IF Truthy(x) THEN x ELSE y

\* the characters the model uses, in code point order
CodeOrder == <<".", "/", "0", "1", "2", "3", "4", "5", "6", "7", "8", "9",
               "A", "B", "_", "a", "c", "d", "e", "f", "i", "k", "l", "m",
               "n", "p", "q", "r", "s", "t", "v">>

Ord(c) == CHOOSE k \in 1..Len(CodeOrder) : CodeOrder[k] = c

\* s < t for two str
RECURSIVE StrLess(_, _)
StrLess(s, t) ==
    IF s = <<>> THEN t # <<>>
    ELSE IF t = <<>> THEN FALSE
    ELSE IF Head(s) = Head(t) THEN StrLess(Tail(s), Tail(t))
    ELSE Ord(Head(s)) < Ord(Head(t))

\* insertion of x into a sorted list
RECURSIVE Insert(_, _)
Insert(x, l) ==
    IF l = <<>> THEN <<x>>
    ELSE IF StrLess(x, Head(l)) THEN <<x>> \o l
    ELSE <<Head(l)>> \o Insert(x, Tail(l))

\* the list as it was given
unsorted(l) == l

\* sorted(l) for a list of str
RECURSIVE sorted(_)
sorted(l) == IF l = <<>> THEN <<>> ELSE Insert(Head(l), sorted(Tail(l)))

\* sep.join(l)
RECURSIVE Join(_, _)
Join(sep, l) ==
    IF l = <<>> THEN <<>>
    ELSE IF Len(l) = 1 THEN l[1]
    ELSE l[1] \o sep \o Join(sep, Tail(l))

\* str(n) for n >= 0
RECURSIVE IntToStr(_)
IntToStr(n) ==
    LET d == CodeOrder[3 + (n % 10)]
    IN IF n < 10 THEN <<d>> ELSE IntToStr(n \div 10) \o <<d>>

IsDigit(c) == c \in {CodeOrder[k] : k \in 3..12}

\* int(s) for s a non-empty string of digits
RECURSIVE StrToInt(_)
StrToInt(s) ==
    LET d == Ord(s[Len(s)]) - 3
    IN IF Len(s) = 1 THEN d ELSE 10 * StrToInt(SubSeq(s, 1, Len(s) - 1)) + d

IsNumber(s) == s # <<>> /\ \A k \in 1..Len(s) : IsDigit(s[k])

---------------------------------------------------------------------------
(* Paths (pathlib) *)

\* index of the last occurrence of c in s, 0 if none
LastIndex(s, c) ==
    LET at == {k \in 1..Len(s) : s[k] = c}
    IN IF at = {} THEN 0 ELSE CHOOSE k \in at : \A j \in at : j <= k

\* Path(dir) / name
PathJoin(dir, name) == dir \o <<"/">> \o name

\* Path.name: the final component
PathName(p) == SubSeq(p, LastIndex(p, "/") + 1, Len(p))

\* Path.stem: the final component without its last suffix
PathStem(p) ==
    LET n == PathName(p)
        dot == LastIndex(n, ".")
    IN IF dot > 1 THEN SubSeq(n, 1, dot - 1) ELSE n

\* get_cache_filename(series_ids, start_date, frequency, results_dir)
get_cache_filename(series_ids, start_date, frequency, results_dir) ==
    LET series_hash == Join(<<"_">>, sorted(series_ids))
        params == series_hash \o <<"_">> \o Or(start_date, <<"a", "l", "l">>)
                  \o <<"_">> \o Or(frequency, <<"n", "a", "t", "i", "v", "e">>)
    IN PathJoin(results_dir,
                <<"f", "r", "e", "d", "_", "d", "a", "t", "a", "_">> \o params
                \o <<".", "c", "s", "v">>)

\* the cache_file fetch_fred_data derives for its save_format
CacheFile(series_ids, start_date, frequency, results_dir, save_format) ==
    IF save_format = "pickle"
    THEN PathJoin(results_dir,
                  PathStem(get_cache_filename(series_ids, start_date, frequency, results_dir))
                  \o <<".", "p", "k", "l">>)
    ELSE get_cache_filename(series_ids, start_date, frequency, results_dir)

---------------------------------------------------------------------------
(* pandas: Series and DataFrame.  A Series is [index, values], a DataFrame *)
(* [columns, index, values] with values[j][k] the cell of column j at row  *)
(* k.  Dates are day numbers; values are integers, NaN a value of its own. *)

NaN == 0 - 1

\* pd.DataFrame()
EmptyFrame == [columns |-> <<>>, index |-> <<>>, values |-> <<>>]

\* DataFrame.empty: any axis of length 0
IsEmpty(df) == Len(df.columns) = 0 \/ Len(df.index) = 0

\* position of x in seq, 0 if absent
Position(seq, x) ==
    LET at == {k \in 1..Len(seq) : seq[k] = x}
    IN IF at = {} THEN 0 ELSE CHOOSE k \in at : \A j \in at : k <= j

\* Series.reindex(index)._values: the values of s at the labels of index
Reindex(s, index) ==
    [k \in 1..Len(index) |->
        IF Position(s.index, index[k]) > 0
        THEN s.values[Position(s.index, index[k])] ELSE NaN]

\* the index of the frame after DataFrame._ensure_valid_index(value): a frame
\* without rows takes the index of a value that has rows
FrameIndex(df, s) ==
    IF Len(df.index) = 0 /\ Len(s.index) > 0 THEN s.index ELSE df.index

\* data[series_id] = series_data (DataFrame.__setitem__ with a Series): the
\* Series is reindexed to the frame's index
SetItem(df, id, s) ==
    LET index == FrameIndex(df, s)
        old == IF index = df.index THEN df.values
               ELSE [j \in 1..Len(df.columns) |-> [k \in 1..Len(index) |-> NaN]]
        col == Reindex(s, index)
        at == Position(df.columns, id)
    IN IF at > 0
       THEN [columns |-> df.columns, index |-> index,
             values |-> [old EXCEPT ![at] = col]]
       ELSE [columns |-> Append(df.columns, id), index |-> index,
             values |-> Append(old, col)]

RECURSIVE SumOver(_, _)
SumOver(s, ks) ==
    IF ks = {} THEN 0
    ELSE LET k == CHOOSE x \in ks : TRUE IN s.values[k] + SumOver(s, ks \ {k})

\* Series.resample(rule).mean() with periods of len days: one row per period
\* from the first to the last observed, dated at the period's last day, the
\* mean of the period's non-NaN values (NaN for a period without any)
ResampleMean(s, len) ==
    IF Len(s.index) = 0 THEN s
    ELSE LET first == (s.index[1] - 1) \div len
             last == (s.index[Len(s.index)] - 1) \div len
             n == last - first + 1
             grp(p) == {k \in 1..Len(s.index) :
                           (s.index[k] - 1) \div len = p /\ s.values[k] # NaN}
         IN [index |-> [k \in 1..n |-> (first + k) * len],
             values |-> [k \in 1..n |->
                 IF grp(first + k - 1) = {} THEN NaN
                 ELSE SumOver(s, grp(first + k - 1)) \div Cardinality(grp(first + k - 1))]]

\* lines 108-114: a month is 2 days, a quarter 2 months, a year 2 quarters
Resample(s, frequency) ==
    IF ~Truthy(frequency) THEN s
    ELSE IF frequency = <<"m">> THEN ResampleMean(s, 2)
    ELSE IF frequency = <<"q">> THEN ResampleMean(s, 4)
    ELSE IF frequency = <<"a">> THEN ResampleMean(s, 8)
    ELSE s

---------------------------------------------------------------------------
(* Serialisation.  A file is a sequence of lines, a line a sequence of     *)
(* fields, a field a string.                                               *)

\* a cell writer that has no empty field for NaN
CsvCellZero(v) == IF v = NaN THEN IntToStr(0) ELSE IntToStr(v)

\* a cell of to_csv: NaN is the empty field (na_rep='')
CsvCell(v) == IF v = NaN THEN <<>> ELSE IntToStr(v)

\* DataFrame.to_csv: a header line (the unnamed index, then the columns), then
\* one line per row
to_csv(df) ==
    << <<<<>>>> \o df.columns >> \o
    [k \in 1..Len(df.index) |->
        <<IntToStr(df.index[k])>> \o
        [j \in 1..Len(df.columns) |-> CsvCell(df.values[j][k])]]

CsvValue(f) == IF f = <<>> THEN NaN ELSE StrToInt(f)

\* pd.read_csv(cache_file, index_col=0, parse_dates=True): [ok, df]; ok is
\* FALSE when it raises (EmptyDataError for a file without a line)
read_csv(lines) ==
    IF lines = <<>> THEN [ok |-> FALSE, df |-> EmptyFrame]
    ELSE LET columns == Tail(lines[1])
             n == Len(lines) - 1
         IN [ok |-> TRUE,
             df |-> [columns |-> columns,
                     index |-> [k \in 1..n |-> StrToInt(lines[k + 1][1])],
                     values |-> [j \in 1..Len(columns) |-> [k \in 1..n |->
                         IF j + 1 <= Len(lines[k + 1])
                         THEN CsvValue(lines[k + 1][j + 1]) ELSE NaN]]]]

PickleCell(v) == IF v = NaN THEN <<"n", "a", "n">> ELSE IntToStr(v)

PickleValue(f) == IF f = <<"n", "a", "n">> THEN NaN ELSE StrToInt(f)

\* pickle.dump(data, f): a protocol line, the columns, the index, one line
\* per column, and the STOP opcode
pickle_dump(df) ==
    << << <<"p", "k", "l">> >>, df.columns,
       [k \in 1..Len(df.index) |-> IntToStr(df.index[k])] >> \o
    [j \in 1..Len(df.columns) |->
        [k \in 1..Len(df.index) |-> PickleCell(df.values[j][k])]] \o
    << << <<".">> >> >>

\* pickle.load(f): [ok, df]; ok is FALSE when it raises (a truncated file
\* has no STOP opcode: EOFError, UnpicklingError)
pickle_load(lines) ==
    IF Len(lines) < 4 \/ lines[Len(lines)] # << <<".">> >>
       \/ Len(lines) # Len(lines[2]) + 4
    THEN [ok |-> FALSE, df |-> EmptyFrame]
    ELSE [ok |-> TRUE,
          df |-> [columns |-> lines[2],
                  index |-> [k \in 1..Len(lines[3]) |-> StrToInt(lines[3][k])],
                  values |-> [j \in 1..Len(lines[2]) |->
                      [k \in 1..Len(lines[3]) |-> PickleValue(lines[3 + j][k])]]]]

\* lines 77-81: the read of the cache file in the caller's save_format
CacheRead(lines, save_format) ==
    IF save_format = "pickle" THEN pickle_load(lines) ELSE read_csv(lines)

\* lines 130-134: what a completed write leaves in the cache file
CacheWrite(df, save_format) ==
    IF save_format = "pickle" THEN pickle_dump(df) ELSE to_csv(df)

---------------------------------------------------------------------------
(* fetch_fred_data: inputs *)

max_retries == 3

SeriesIds == {<<"A">>, <<"B">>}

\* the lists of series a call may ask for
SeriesLists == {<< <<"A">>, <<"B">> >>, << <<"B">>, <<"A">> >>}

StartDates == {NoneVal, IntToStr(MaxDate + 1)}

Frequencies == {NoneVal, <<"m">>}

SaveFormats == {"csv", "pickle"}

\* results_dir of every call
ResultsDir == <<"r">>

\* the dates at which the remote source holds an observation of series id
Held(id) == IF id = <<"A">> THEN 1..MaxDate ELSE 2..(MaxDate + 1)

\* the value the remote source holds for series id at date d
Obs(id, d) == 12 * (10 * (Ord(id[1]) - 12) + d)

\* the ascending sequence of the dates in ds
RECURSIVE Ascending(_)
Ascending(ds) ==
    IF ds = {} THEN <<>>
    ELSE LET m == CHOOSE x \in ds : \A y \in ds : x <= y
         IN <<m>> \o Ascending(ds \ {m})

\* the series of id observed at the dates ds
SeriesOn(id, ds) ==
    LET index == Ascending(ds)
    IN [index |-> index, values |-> [k \in 1..Len(index) |-> Obs(id, index[k])]]

\* fred.get_series(series_id, start=start_date) when it succeeds: the
\* observations held for the series, from start_date on
get_series(id, start_date) ==
    SeriesOn(id, {d \in Held(id) :
                     ~Truthy(start_date) \/ d >= StrToInt(start_date)})

NoReq == [series_ids |-> <<>>, start_date |-> NoneVal, frequency |-> NoneVal,
          use_cache |-> FALSE, force_refresh |-> FALSE, save_format |-> "csv"]

NoFiles == [p \in {} |-> <<>>]

NoPrev == [req |-> NoReq, via |-> "none", wrote |-> "none"]

---------------------------------------------------------------------------
(* fetch_fred_data: the conditions and handlers of the code *)

\* a cache check that ignores use_cache and force_refresh
UseCacheAlways(r, fs, cf) == cf \in DOMAIN fs

\* a call that never reads the cache
UseCacheNever(r, fs, cf) == FALSE

\* a cache check that reads the file only on a forced refresh
UseCacheOnRefresh(r, fs, cf) == r.use_cache /\ r.force_refresh /\ cf \in DOMAIN fs

\* line 74: the cache file is read
UseCache(r, fs, cf) == r.use_cache /\ ~r.force_refresh /\ cf \in DOMAIN fs

\* a cache read whose exception leaves fetch_fred_data
ReadErrorRaises == "raised"

\* lines 82-84: an exception of the cache read is caught, the download follows
AfterReadError == "download"

\* a loop without the handler of lines 120-121
SeriesErrorRaises == "raised"

\* lines 120-121: an exception of one series is caught, the loop goes on
AfterSeriesError == "download"

\* a save that does not look at the table
AlwaysSave(df) == TRUE

\* line 128: the table is written to the cache
ShouldSave(df) == ~IsEmpty(df)

\* a cache write whose exception leaves fetch_fred_data
WriteErrorRaises == "raised"

\* lines 136-137: an exception of the cache write is caught, the table is returned
AfterWriteError == "done"

\* a retry loop that re-raises one attempt later
LastAttemptLate(a) == a = max_retries

\* lines 102-103: the last attempt re-raises
LastAttempt(a) == a = max_retries - 1

\* what a write that raises can leave at the path: nothing changed (open
\* raised), or, once open has truncated the file, the lines written so far:
\* none, or all but the last
FailedWrites(fs, cf, content) ==
    {fs} \cup {[p \in DOMAIN fs \cup {cf} |->
                   IF p = cf THEN SubSeq(content, 1, k) ELSE fs[p]] :
               k \in {0, Len(content) - 1}}

---------------------------------------------------------------------------
(* fetch_fred_data: the actions *)

FetchStart ==
    /\ pc = "idle"
    /\ req = NoReq
    /\ cache_file = <<>>
    /\ idx = 0
    /\ attempt = 0
    /\ data = EmptyFrame
    /\ calls = 0
    /\ sleeps = 0
    /\ got = <<>>
    /\ result = EmptyFrame
    /\ via = "none"
    /\ wrote = "none"
    /\ files = NoFiles
    /\ files0 = NoFiles
    /\ written = NoFiles
    /\ prev = NoPrev

\* lines 63-71 and 86-91: the call starts
Enter(r) ==
    /\ pc = "idle"
    /\ req' = r
    /\ cache_file' = CacheFile(r.series_ids, r.start_date, r.frequency,
                               ResultsDir, r.save_format)
    /\ files0' = files
    /\ idx' = 1
    /\ attempt' = 0
    /\ data' = EmptyFrame
    /\ calls' = 0
    /\ sleeps' = 0
    /\ got' = <<>>
    /\ wrote' = "none"
    /\ UNCHANGED <<files, written, prev, session>>

\* the calls of a run differ in the order of series_ids and in the cache flags
Requests ==
    [series_ids : SeriesLists, start_date : {session.start_date},
     frequency : {session.frequency}, use_cache : BOOLEAN,
     force_refresh : BOOLEAN, save_format : {session.save_format}]

\* lines 73-81: the cache file exists and parses: it is returned
CallHit ==
    \E r \in Requests :
        /\ Enter(r)
        /\ UseCache(r, files, cache_file')
        /\ CacheRead(files[cache_file'], r.save_format).ok
        /\ result' = CacheRead(files[cache_file'], r.save_format).df
        /\ via' = "hit"
        /\ pc' = "done"

\* lines 73-84: the cache file exists and the read raises
CallReadError ==
    \E r \in Requests :
        /\ Enter(r)
        /\ UseCache(r, files, cache_file')
        /\ ~CacheRead(files[cache_file'], r.save_format).ok
        /\ result' = EmptyFrame
        /\ via' = "readerr"
        /\ pc' = AfterReadError

\* line 74 is false: no cache read
CallMiss ==
    \E r \in Requests :
        /\ Enter(r)
        /\ ~UseCache(r, files, cache_file')
        /\ result' = EmptyFrame
        /\ via' = IF r.use_cache /\ ~r.force_refresh THEN "nofile" ELSE "nocache"
        /\ pc' = "download"

\* lines 97-100 and 107-118: get_series returns
AttemptOk ==
    /\ pc = "download"
    /\ idx <= Len(req.series_ids)
    /\ LET id == req.series_ids[idx]
           series_data == Resample(get_series(id, req.start_date),
                                   req.frequency)
       IN /\ data' = SetItem(data, id, series_data)
          /\ got' = Append(got, [id |-> id, series |-> series_data])
    /\ calls' = calls + 1
    /\ idx' = idx + 1
    /\ attempt' = 0
    /\ UNCHANGED <<pc, req, cache_file, sleeps, result, via, wrote, files,
                   files0, written, prev, session>>

\* lines 101-105: get_series raises before the last attempt
AttemptRetry ==
    /\ pc = "download"
    /\ idx <= Len(req.series_ids)
    /\ ~LastAttempt(attempt)
    /\ calls' = calls + 1
    /\ sleeps' = sleeps + 1
    /\ attempt' = attempt + 1
    /\ UNCHANGED <<pc, req, cache_file, idx, data, got, result, via, wrote,
                   files, files0, written, prev, session>>

\* lines 101-103 and 120-121: get_series raises on the last attempt
AttemptGiveUp ==
    /\ pc = "download"
    /\ idx <= Len(req.series_ids)
    /\ LastAttempt(attempt)
    /\ calls' = calls + 1
    /\ idx' = idx + 1
    /\ attempt' = 0
    /\ pc' = AfterSeriesError
    /\ UNCHANGED <<req, cache_file, data, sleeps, got, result, via, wrote,
                   files, files0, written, prev, session>>

\* lines 128 and 139: nothing to save
ReturnUnsaved ==
    /\ pc = "download"
    /\ idx > Len(req.series_ids)
    /\ ~ShouldSave(data)
    /\ result' = data
    /\ pc' = "done"
    /\ UNCHANGED <<req, cache_file, idx, attempt, data, calls, sleeps, got,
                   via, wrote, files, files0, written, prev, session>>

\* lines 128-135 and 139: the cache file is written
SaveOk ==
    /\ pc = "download"
    /\ idx > Len(req.series_ids)
    /\ ShouldSave(data)
    /\ files' = [p \in DOMAIN files \cup {cache_file} |->
                    IF p = cache_file THEN CacheWrite(data, req.save_format)
                    ELSE files[p]]
    /\ written' = [p \in DOMAIN written \cup {cache_file} |->
                      IF p = cache_file THEN data ELSE written[p]]
    /\ wrote' = "ok"
    /\ result' = data
    /\ pc' = "done"
    /\ UNCHANGED <<req, cache_file, idx, attempt, data, calls, sleeps, got,
                   via, files0, prev, session>>

\* lines 128-137 and 139: the cache write raises
SaveFail ==
    /\ pc = "download"
    /\ idx > Len(req.series_ids)
    /\ ShouldSave(data)
    /\ files' \in FailedWrites(files, cache_file, CacheWrite(data, req.save_format))
    /\ written' = IF files' = files THEN written
                   ELSE [p \in DOMAIN written \ {cache_file} |-> written[p]]
    /\ wrote' = "failed"
    /\ result' = data
    /\ pc' = AfterWriteError
    /\ UNCHANGED <<req, cache_file, idx, attempt, data, calls, sleeps, got,
                   via, files0, prev, session>>

\* the caller has the result and the call's locals are gone; the next call
\* may start
Return ==
    /\ pc = "done"
    /\ pc' = "idle"
    /\ prev' = [req |-> req, via |-> via, wrote |-> wrote]
    /\ req' = NoReq
    /\ cache_file' = <<>>
    /\ idx' = 0
    /\ attempt' = 0
    /\ data' = EmptyFrame
    /\ calls' = 0
    /\ sleeps' = 0
    /\ got' = <<>>
    /\ result' = EmptyFrame
    /\ via' = "none"
    /\ wrote' = "none"
    /\ files0' = files
    /\ UNCHANGED <<files, written, session>>


---------------------------------------------------------------------------
(* fetch_fred_data: the claims *)

\* the call is one with caching enabled
Caching(r) == r.use_cache /\ ~r.force_refresh

\* the series whose get_series call succeeded in the current call
Succeeded == {got[k].id : k \in 1..Len(got)}

\* the requested series that succeeded, in the order of the request
SucceededInOrder ==
    LET Kept(id) == id \in Succeeded IN SelectSeq(req.series_ids, Kept)

\* the (date, value) pairs of a series
Pairs(s) == {<<s.index[k], s.values[k]>> : k \in 1..Len(s.index)}

\* the column of df named id, as a series
Column(df, id) == [index |-> df.index, values |-> df.values[Position(df.columns, id)]]

\* a second call in a row with the parameters of the first, caching enabled
SecondOfTwo == pc = "done" /\ prev.req = req /\ Caching(req)

\* C2 as stated: two calls in a row with identical parameters and caching
\* enabled perform exactly one network call sequence, from any cache state: the
\* first call downloads, the second makes no remote call and is a cache hit.
C2_Original ==
    SecondOfTwo => (prev.via # "hit" /\ calls = 0 /\ via = "hit")

\* C2 amended: when the first of the two calls was served from the cache, or
\* downloaded a non-empty table and wrote it to the cache, the second call makes
\* no remote call, is served from the cache file and leaves it unchanged.
C2_Amended ==
    (SecondOfTwo /\ (prev.via = "hit" \/ prev.wrote = "ok"))
        => (calls = 0 /\ via = "hit" /\ files = files0)

C2_Witness ==
    /\ SecondOfTwo
    /\ prev.via = "nofile"
    /\ prev.wrote = "ok"
    /\ via = "hit"
    /\ calls = 0

\* C3: a series that fails all its attempts never makes the call raise, and a
\* call that downloads returns a table whose columns are exactly the series
\* that succeeded, in the order of the request.
C3_Degradation ==
    /\ pc # "raised"
    /\ (pc = "done" /\ via # "hit") => result.columns = SucceededInOrder

C3_Witness ==
    /\ pc = "done"
    /\ via # "hit"
    /\ Len(req.series_ids) = 2
    /\ Succeeded = {req.series_ids[2]}
    /\ result.columns = <<req.series_ids[2]>>
    /\ calls > max_retries

\* C5: a cache hit on a file that the last write to its path completed returns
\* the table that was written, and right after a completed write the read of
\* the file in the same format gives the table back.
C5_RoundTrip ==
    /\ (pc = "done" /\ via = "hit" /\ cache_file \in DOMAIN written)
           => result = written[cache_file]
    /\ (pc = "done" /\ wrote = "ok")
           => CacheRead(files[cache_file], req.save_format) = [ok |-> TRUE, df |-> data]

C5_Witness ==
    /\ pc = "done"
    /\ via = "hit"
    /\ prev.wrote = "ok"
    /\ cache_file \in DOMAIN written
    /\ result = written[cache_file]
    /\ \E j \in 1..Len(result.columns) : \E k \in 1..Len(result.index) :
           result.values[j][k] = NaN

\* C6: when every series fails, the cache file is neither created nor
\* modified and the call returns the empty table.
C6_EmptyNeverCached ==
    (pc = "done" /\ via # "hit" /\ Succeeded = {})
        => (files = files0 /\ wrote = "none" /\ IsEmpty(result))

C6_Witness ==
    /\ pc = "done"
    /\ via # "hit"
    /\ Succeeded = {}
    /\ calls = max_retries * Len(req.series_ids)
    /\ cache_file \in DOMAIN files
    /\ files = files0

\* C7: a cache file that exists and does not parse makes the call download:
\* it does not raise, every requested series is fetched, and the table
\* assembled from them is returned.
C7_ParseFailureIsMiss ==
    via = "readerr" =>
        /\ pc \in {"download", "done"}
        /\ pc = "done" =>
              /\ idx = Len(req.series_ids) + 1
              /\ calls >= Len(req.series_ids)
              /\ result = data
              /\ result.columns = SucceededInOrder

C7_Witness ==
    /\ pc = "done"
    /\ via = "readerr"
    /\ Len(result.columns) = Len(req.series_ids)
    /\ ~CacheRead(files0[cache_file], req.save_format).ok

\* C8 as stated: a valid cache file that exists before a fetch is still a
\* parseable cache file after the write at the end of that fetch has failed.
C8_Claim ==
    (/\ pc = "done"
     /\ wrote = "failed"
     /\ cache_file \in DOMAIN files0
     /\ CacheRead(files0[cache_file], req.save_format).ok)
        => CacheRead(files[cache_file], req.save_format).ok

\* C9: a cache write that raises does not make the call raise: the call
\* returns the table it assembled from the series that succeeded.
C9_WriteFailureNotFatal ==
    wrote = "failed" =>
        /\ pc = "done"
        /\ result = data
        /\ result.columns = SucceededInOrder
        /\ ~IsEmpty(result)

C9_Witness ==
    /\ pc = "done"
    /\ wrote = "failed"
    /\ files # files0
    /\ ~IsEmpty(result)

\* C10 as stated: the table a download assembles is the outer join on date of
\* the series that succeeded: its dates are the union of their dates, every
\* series keeps all its (date, value) pairs, and a date a series lacks is NaN.
C10_Claim ==
    (pc = "done" /\ via # "hit") =>
        /\ {result.index[k] : k \in 1..Len(result.index)}
               = UNION {{got[g].series.index[k] : k \in 1..Len(got[g].series.index)} :
                        g \in 1..Len(got)}
        /\ \A g \in 1..Len(got) :
               /\ Pairs(got[g].series) \subseteq Pairs(Column(result, got[g].id))
               /\ \A p \in Pairs(Column(result, got[g].id)) :
                      p \in Pairs(got[g].series) \/ p[2] = NaN

\* the number of series of the current request
NumSeries == Len(req.series_ids)

\* the current call is past the cache check and was not served from the cache
Downloading == pc \in {"download", "done"} /\ via # "hit"

\* the counters of a call that downloads stay within the retry ceiling
RetryBounds ==
    /\ pc # "raised"
    /\ Downloading =>
          /\ attempt \in 0..(max_retries - 1)
          /\ idx \in 1..(NumSeries + 1)
          /\ Len(got) <= idx - 1
          /\ calls <= max_retries * (idx - 1) + attempt
          /\ sleeps = calls - (idx - 1)
          /\ sleeps <= (max_retries - 1) * (idx - 1) + attempt
          /\ calls >= idx - 1 + attempt
    /\ (Downloading /\ pc = "done") =>
          /\ idx = NumSeries + 1
          /\ attempt = 0
          /\ calls <= max_retries * NumSeries
          /\ sleeps <= (max_retries - 1) * NumSeries

\* every step of the download moves on: to the next attempt of the same
\* series, with a delay and below the ceiling; to the next series; or, after
\* the last series, to the return
RetryProgress ==
    pc = "download" =>
        \/ /\ pc' = "done"
           /\ idx = NumSeries + 1
           /\ calls' = calls /\ sleeps' = sleeps
        \/ /\ pc' = "download"
           /\ idx <= NumSeries /\ idx' = idx + 1
           /\ calls' = calls + 1 /\ sleeps' = sleeps
        \/ /\ pc' = "download"
           /\ idx' = idx /\ attempt' = attempt + 1 /\ attempt' < max_retries
           /\ calls' = calls + 1 /\ sleeps' = sleeps + 1
           /\ got' = got

\* C14: on a cache miss each series gets at most max_retries remote calls, none
\* after its first success; a delay follows every failed call but the last of
\* a series, and nothing else; the last failure does not leave the call; so a
\* call for N series ends after at most max_retries * N remote calls and
\* (max_retries - 1) * N delays.
C14_BoundedRetries == []RetryBounds /\ [][RetryProgress]_vars

C14_Witness ==
    /\ pc = "done"
    /\ Downloading
    /\ NumSeries = 2
    /\ Len(got) = 1
    /\ calls = max_retries + 2
    /\ sleeps = max_retries

\* the cache can serve the current call: caching is enabled and the file at
\* the derived path existed and parsed when the call started
Servable ==
    /\ Caching(req)
    /\ cache_file \in DOMAIN files0
    /\ CacheRead(files0[cache_file], req.save_format).ok

\* C15: a call is served from the cache, with no remote call and the file
\* unchanged, exactly when caching is enabled and a parseable cache file
\* exists; in every other case every requested series is fetched remotely.
C15_RemoteIffNotCached ==
    /\ pc = "download" => ~Servable
    /\ pc = "done" =>
          /\ via = "hit" <=> Servable
          /\ Servable =>
                /\ calls = 0
                /\ files = files0
                /\ result = CacheRead(files0[cache_file], req.save_format).df
          /\ ~Servable =>
                /\ idx = NumSeries + 1
                /\ calls >= NumSeries
                /\ result = data

C15_Witness ==
    /\ pc = "done"
    /\ req.use_cache
    /\ req.force_refresh
    /\ cache_file \in DOMAIN files0
    /\ CacheRead(files0[cache_file], req.save_format).ok
    /\ via = "nocache"
    /\ calls >= NumSeries

\* C20: once a table is written to the cache, a later call with caching
\* enabled and the same cache file returns that table without a remote call
\* and without writing, whatever columns the table lacks.
C20_PartialResultsStick ==
    (pc = "done" /\ Caching(req) /\ wrote = "none" /\ cache_file \in DOMAIN written)
        => /\ via = "hit"
           /\ calls = 0
           /\ result = written[cache_file]
           /\ files = files0

C20_Witness ==
    /\ pc = "done"
    /\ Caching(req)
    /\ via = "hit"
    /\ prev.wrote = "ok"
    /\ prev.req.series_ids # req.series_ids
    /\ result = written[cache_file]
    /\ Len(result.columns) = 1
    /\ NumSeries = 2
    /\ calls = 0

---------------------------------------------------------------------------
(* get_cache_filename as a function of the request: two requests are drawn *)
(* and their cache files derived.                                          *)

\* number of series_ids of a request
MaxIds == 2

KeyIds == {<<"A">>, <<"B">>, <<"A", "_", "B">>}

\* the lists of at most MaxIds distinct ids
KeyLists ==
    UNION {{l \in [1..n -> KeyIds] : \A j, k \in 1..n : j # k => l[j] # l[k]} :
           n \in 1..MaxIds}

KeyStartDates == {NoneVal, <<"a", "l", "l">>, <<"3">>}

KeyFrequencies == {NoneVal, <<"m">>, <<"n", "a", "t", "i", "v", "e">>}

KeyRequests ==
    [series_ids : KeyLists, start_date : KeyStartDates,
     frequency : KeyFrequencies, results_dir : {ResultsDir},
     save_format : SaveFormats]

\* the cache file of a request
KeyOf(r) ==
    CacheFile(r.series_ids, r.start_date, r.frequency, r.results_dir, r.save_format)

KeyStart ==
    /\ keyIn = <<>>
    /\ keyOut = <<>>

\* lines 67-71, for each of the two requests
DeriveKeys ==
    /\ keyIn # <<>>
    /\ keyOut = <<>>
    /\ keyOut' = <<KeyOf(keyIn[1]), KeyOf(keyIn[2])>>
    /\ UNCHANGED keyIn

\* b is a permutation of a
IsPermutation(a, b) ==
    /\ Len(a) = Len(b)
    /\ \A x \in {a[k] : k \in 1..Len(a)} \cup {b[k] : k \in 1..Len(b)} :
           Cardinality({k \in 1..Len(a) : a[k] = x})
               = Cardinality({k \in 1..Len(b) : b[k] = x})

\* the two requests differ at most in the order of their series_ids
SameUpToOrder(a, b) ==
    /\ IsPermutation(a.series_ids, b.series_ids)
    /\ a.start_date = b.start_date
    /\ a.frequency = b.frequency
    /\ a.results_dir = b.results_dir
    /\ a.save_format = b.save_format

\* C4: two requests whose series_ids are permutations of each other and whose
\* start_date, frequency, results_dir and save format are identical have the
\* same cache file.
C4_OrderIndependent ==
    (keyOut # <<>> /\ SameUpToOrder(keyIn[1], keyIn[2])) => keyOut[1] = keyOut[2]

C4_Witness ==
    /\ keyOut # <<>>
    /\ SameUpToOrder(keyIn[1], keyIn[2])
    /\ keyIn[1].series_ids # keyIn[2].series_ids
    /\ keyOut[1] = keyOut[2]

\* the set of series a request names
IdSet(r) == {r.series_ids[k] : k \in 1..Len(r.series_ids)}

\* the two requests differ in their set of series, their start_date or their
\* frequency; they agree on the directory and the save format
DifferentRequests(a, b) ==
    /\ a.results_dir = b.results_dir
    /\ a.save_format = b.save_format
    /\ \/ IdSet(a) # IdSet(b)
       \/ a.start_date # b.start_date
       \/ a.frequency # b.frequency

\* C22 as stated: two requests that differ in their set of series_ids, in
\* start_date or in frequency (absent versus supplied included) have
\* different cache files.
C22_Claim ==
    (keyOut # <<>> /\ DifferentRequests(keyIn[1], keyIn[2])) => keyOut[1] # keyOut[2]

---------------------------------------------------------------------------
(* pdf_report.py.  Lengths are in 1/24 point, so that the width of an      *)
(* image in a row of 1, 2 or 3 and its scaled height are integers.  A page *)
(* is the sequence of what was drawn on it.                                *)

\* number of sections of a report
MaxSections == 2

Unit == 2 * 12

Pt(n) == n * Unit

\* reportlab.lib.pagesizes.letter
letter == <<Pt(612), Pt(792)>>

\* a file system in which every path of the layouts has an image
ImageFilesEverywhere == {<<"w">>, <<"s">>, <<"t">>, <<"g">>}

\* the image files that exist, with their size in pixels (PIL Image.size)
ImageFiles == {<<"w">>, <<"s">>, <<"t">>}

ImageSize(path) ==
    IF path = <<"w">> THEN <<4, 1>>
    ELSE IF path = <<"s">> THEN <<1, 1>>
    ELSE <<1, 2>>

\* a path at which there is no file
Missing == <<"g">>

\* the three shapes of an image configuration
ConfigStr(path) == [kind |-> "str", path |-> path, row_images |-> 0, paths |-> <<>>]

ConfigDict(path, n) == [kind |-> "dict", path |-> path, row_images |-> n, paths |-> <<>>]

ConfigList(paths) == [kind |-> "list", path |-> <<>>, row_images |-> 0, paths |-> paths]

\* the image_configs a section may come with
Layouts ==
    { << ConfigStr(<<"s">>) >>,
      << ConfigStr(<<"w">>), ConfigStr(<<"w">>), ConfigStr(<<"w">>), ConfigStr(<<"w">>) >>,
      << ConfigDict(<<"s">>, 2), ConfigDict(<<"w">>, 2), ConfigDict(<<"w">>, 2) >>,
      << ConfigList(<< <<"w">>, <<"s">>, <<"w">> >>), ConfigList(<<>>) >>,
      << ConfigStr(<<"t">>) >>,
      << ConfigStr(<<"s">>), ConfigStr(Missing) >>,
      << ConfigDict(<<"w">>, 3), ConfigDict(<<"s">>, 1) >>,
      << ConfigDict(<<"s">>, 2), ConfigStr(<<"w">>), ConfigDict(<<"t">>, 2) >>,
      << >> }

\* the title of the k-th section
TitleOf(k) == <<"S">> \o IntToStr(k)

\* the sections arguments: up to MaxSections sections
SectionLists ==
    UNION {{[k \in 1..n |-> [title |-> TitleOf(k), image_configs |-> l[k]]] :
            l \in [1..n -> Layouts]} : n \in 0..MaxSections}

ReportTitles == {NoneVal, <<>>, <<"R">>}

\* something drawn on a page; sec tells which section or contents entry it
\* belongs to (0: none)
Drawn(op, text, sec, x, y, w, h) ==
    [op |-> op, text |-> text, sec |-> sec, x |-> x, y |-> y, w |-> w, h |-> h]

Draw(g, d) == [g EXCEPT !.cur = Append(@, d)]

\* a canvas that drops the finished page
showPageDropped(g) == [g EXCEPT !.cur = <<>>]

\* canvas.showPage(): the current page is finished
showPage(g) == [g EXCEPT !.pages = Append(@, g.cur), !.cur = <<>>]

\* lines 17-22; ref is the new list object of self.sections
NewGenerator(report_title, ref) ==
    [width |-> letter[1], height |-> letter[2],
     y_position |-> letter[2] - Pt(50), current_page |-> 1,
     sections |-> ref, report_title |-> report_title,
     pages |-> <<>>, cur |-> <<>>, raised |-> FALSE]

\* lines 24-44 (the horizontal centering needs font metrics: x is not modelled)
add_title_page(g) ==
    IF ~Truthy(g.report_title) THEN g
    ELSE LET a == Draw(g, Drawn("title", g.report_title, 0, 0, g.height - Pt(200), 0, 0))
             b == Draw(a, Drawn("date", <<"d">>, 0, 0, g.height - Pt(250), 0, 0))
         IN [showPage(b) EXCEPT !.current_page = @ + 1]

\* a table of contents without the loop of lines 54-64
TocWithoutLines(g, entries, k, y) == g

\* lines 54-64: one line per entry of self.sections
RECURSIVE TocLines(_, _, _, _)
TocLines(g, entries, k, y) ==
    IF k > Len(entries) THEN g
    ELSE LET a == Draw(g, Drawn("toc_title", entries[k][1], k, Pt(50), y, 0, 0))
             b == Draw(a, Drawn("toc_page", IntToStr(entries[k][2]), k, Pt(500), y, 0, 0))
             c == Draw(b, Drawn("toc_dots", <<".">>, k, Pt(200), y, 0, 0))
         IN TocLines(c, entries, k + 1, y - Pt(20))

\* lines 46-67
add_table_of_contents(g, entries) ==
    LET a == Draw(g, Drawn("toc_head", <<"T">>, 0, Pt(50), g.height - Pt(50), 0, 0))
        b == TocLines(a, entries, 1, g.height - Pt(100))
    IN [showPage(b) EXCEPT !.current_page = @ + 1]

\* lines 69-73
add_page_number(g) ==
    Draw(g, Drawn("page_number", <<"P", "a", "g", "e", " ">> \o IntToStr(g.current_page),
                  0, g.width - Pt(72), Pt(30), 0, 0))

Max(a, b) == IF a >= b THEN a ELSE b

RECURSIVE MaxOf(_)
MaxOf(hs) == IF hs = <<>> THEN 0 ELSE Max(Head(hs), MaxOf(Tail(hs)))

\* a test that looks at the cursor and not at the row height
RowOverflowsAtCursor(y_position, max_height) == y_position < Pt(50)

\* line 136: the row does not fit above the bottom margin
RowOverflows(y_position, max_height) == y_position - max_height < Pt(50)

\* lines 118-153; Image.open raises for a file that is missing
ProcessRow(g, image_paths, sec) ==
    IF image_paths = <<>> THEN g
    ELSE IF \E k \in 1..Len(image_paths) : image_paths[k] \notin ImageFiles
    THEN [g EXCEPT !.raised = TRUE]
    ELSE
      LET n == Len(image_paths)
          available_width == g.width - Pt(100)
          image_width == (available_width - (Pt(20) * (n - 1))) \div n
          image_heights == [k \in 1..n |->
              (image_width * ImageSize(image_paths[k])[2]) \div ImageSize(image_paths[k])[1]]
          max_height == MaxOf(image_heights)
          a == IF RowOverflows(g.y_position, max_height)
               THEN [showPage(add_page_number(g)) EXCEPT
                        !.current_page = @ + 1, !.y_position = g.height - Pt(50)]
               ELSE g
          images == [k \in 1..n |->
              Drawn("image", image_paths[k], sec,
                    Pt(50) + (k - 1) * (image_width + Pt(20)),
                    a.y_position - image_heights[k], image_width, image_heights[k])]
      IN [a EXCEPT !.cur = @ \o images, !.y_position = @ - (max_height + Pt(30))]

\* lines 100-114: the loop over image_configs and the trailing row
RECURSIVE Rows(_, _, _, _)
Rows(g, configs, current_row, sec) ==
    IF g.raised THEN g
    ELSE IF configs = <<>>
    THEN IF current_row # <<>> THEN ProcessRow(g, current_row, sec) ELSE g
    ELSE LET config == Head(configs)
             row == Append(current_row, config.path)
         IN IF config.kind = "str"
            THEN Rows(ProcessRow(g, <<config.path>>, sec), Tail(configs), current_row, sec)
            ELSE IF config.kind = "dict"
            THEN IF Len(row) = config.row_images
                 THEN Rows(ProcessRow(g, row, sec), Tail(configs), <<>>, sec)
                 ELSE Rows(g, Tail(configs), row, sec)
            ELSE Rows(ProcessRow(g, config.paths, sec), Tail(configs), current_row, sec)

\* line 87: the header does not fit
HeaderOverflows(y_position) == y_position < Pt(100)

\* line 84: the page recorded for the section
RecordedPage(g) == g.current_page

\* lines 86-116 of add_section, on the generator alone
SectionBody(g, title, image_configs, sec) ==
    LET a == IF HeaderOverflows(g.y_position)
             THEN [showPage(g) EXCEPT
                      !.current_page = @ + 1, !.y_position = g.height - Pt(50)]
             ELSE g
        b == [Draw(a, Drawn("header", title, sec, 0, a.y_position, 0, 0)) EXCEPT
                 !.y_position = @ - Pt(30)]
        c == Rows(b, image_configs, <<>>, sec)
    IN IF c.raised THEN c ELSE [c EXCEPT !.y_position = @ - Pt(20)]

\* a save that writes the finished pages as they are
saveWithoutLastPage(g) == g

\* lines 155-158: the page number, then canvas.save(), which finishes the
\* page that has something on it
save(g) ==
    LET a == add_page_number(g) IN IF a.cur # <<>> THEN showPage(a) ELSE a

NoDocument == [saved |-> FALSE, pages |-> <<>>]

ReportStart ==
    /\ rpc = "idle"
    /\ rin = [sections |-> <<>>, report_title |-> NoneVal]
    /\ gen = <<>>
    /\ heap = <<>>
    /\ sidx = 0
    /\ output = NoDocument

\* lines 169-172: create_report is called; pdf is made and gets its title page
CreateReport ==
    \E sections \in SectionLists, report_title \in ReportTitles :
        /\ rpc = "idle"
        /\ rin' = [sections |-> sections, report_title |-> report_title]
        /\ gen' = << IF Truthy(report_title)
                     THEN add_title_page(NewGenerator(report_title, 1))
                     ELSE NewGenerator(report_title, 1) >>
        /\ heap' = << <<>> >>
        /\ sidx' = 1
        /\ rpc' = "first"
        /\ UNCHANGED output

\* pdf.add_section or final_pdf.add_section (lines 75-116) for section sidx of
\* generator which; the error of a missing image leaves create_report
AddSection(which, next) ==
    LET section == rin.sections[sidx]
        g == gen[which]
        after == SectionBody(g, section.title, section.image_configs, sidx)
    IN /\ heap' = [heap EXCEPT ![g.sections] = Append(@, <<section.title, RecordedPage(g)>>)]
       /\ gen' = [gen EXCEPT ![which] = after]
       /\ IF after.raised
          THEN rpc' = "raised" /\ sidx' = sidx
          ELSE rpc' = next /\ sidx' = sidx + 1
       /\ UNCHANGED <<rin, output>>

\* lines 175-176: the first pass
FirstPass ==
    /\ rpc = "first"
    /\ sidx <= Len(rin.sections)
    /\ AddSection(1, "first")

\* lines 179-183: final_pdf is made; with a report title it shares the list
\* object of pdf.sections and gets the title page and the table of contents
NewFinal ==
    /\ rpc = "first"
    /\ sidx > Len(rin.sections)
    /\ LET fresh == NewGenerator(rin.report_title, 2)
       IN gen' = Append(gen,
              IF Truthy(rin.report_title)
              THEN add_table_of_contents(
                       add_title_page([fresh EXCEPT !.sections = gen[1].sections]),
                       heap[gen[1].sections])
              ELSE fresh)
    /\ heap' = Append(heap, <<>>)
    /\ sidx' = 1
    /\ rpc' = "second"
    /\ UNCHANGED <<rin, output>>

\* lines 186-187: the second pass
SecondPass ==
    /\ rpc = "second"
    /\ sidx <= Len(rin.sections)
    /\ AddSection(2, "second")

\* line 189: final_pdf.save()
Save ==
    /\ rpc = "second"
    /\ sidx > Len(rin.sections)
    /\ gen' = [gen EXCEPT ![2] = save(@)]
    /\ output' = [saved |-> TRUE, pages |-> save(gen[2]).pages]
    /\ rpc' = "saved"
    /\ UNCHANGED <<rin, heap, sidx>>

---------------------------------------------------------------------------
(* create_report: the claims *)

\* the number of the page of the document on which something matching is drawn
PagesWith(doc, op, sec) ==
    {p \in 1..Len(doc.pages) :
        \E k \in 1..Len(doc.pages[p]) :
            doc.pages[p][k].op = op /\ doc.pages[p][k].sec = sec}

\* the page numbers the table of contents of the document lists for entry sec
ListedPages(doc, sec) ==
    UNION {{StrToInt(doc.pages[p][k].text) :
               k \in {j \in 1..Len(doc.pages[p]) :
                         doc.pages[p][j].op = "toc_page" /\ doc.pages[p][j].sec = sec}} :
           p \in 1..Len(doc.pages)}

\* C1 as stated: with a report title, the page the table of contents lists for
\* each section is the page of the final document on which the section's
\* header is drawn.
C1_Claim ==
    (rpc = "saved" /\ Truthy(rin.report_title)) =>
        \A k \in 1..Len(rin.sections) :
            ListedPages(output, k) = PagesWith(output, "header", k)

\* the pages of the document on which a section header or an image is drawn
ContentPages(doc) ==
    {p \in 1..Len(doc.pages) :
        \E k \in 1..Len(doc.pages[p]) : doc.pages[p][k].op \in {"header", "image"}}

\* the text of the footer of page n
FooterText(n) == <<"P", "a", "g", "e", " ">> \o IntToStr(n)

\* the last thing drawn on the page is the footer with the page's number
EndsWithFooter(page, n) ==
    /\ page # <<>>
    /\ page[Len(page)].op = "page_number"
    /\ page[Len(page)].text = FooterText(n)

\* C11 as stated: every content page of the final document carries, as the last
\* thing drawn on it, the page-number footer with that page's number.
C11_Claim ==
    rpc = "saved" =>
        \A p \in ContentPages(output) : EndsWithFooter(output.pages[p], p)

\* the things of one kind drawn on a page, in the order drawn
OpsOf(page, op) == LET Is(d) == d.op = op IN SelectSeq(page, Is)

\* the page is a table-of-contents page
IsTocPage(page) == OpsOf(page, "toc_head") # <<>>

\* the (title, page number) entries a table-of-contents page lists, in order
TocEntries(page) ==
    [k \in 1..Len(OpsOf(page, "toc_title")) |->
        <<OpsOf(page, "toc_title")[k].text, OpsOf(page, "toc_page")[k].text>>]

\* the pairs the first pass recorded: the first entries of pdf.sections
FirstPassPairs ==
    [k \in 1..Len(rin.sections) |->
        <<heap[gen[1].sections][k][1], IntToStr(heap[gen[1].sections][k][2])>>]

\* the second pass has begun
InSecondPass == rpc \in {"second", "saved"}

RECURSIVE PathsOf(_)
PathsOf(configs) ==
    IF configs = <<>> THEN <<>>
    ELSE (IF Head(configs).kind = "list" THEN Head(configs).paths
          ELSE <<Head(configs).path>>) \o PathsOf(Tail(configs))

\* section k refers to an image file that does not exist
RefersToMissing(k) ==
    \E j \in 1..Len(PathsOf(rin.sections[k].image_configs)) :
        PathsOf(rin.sections[k].image_configs)[j] = Missing

\* the sections whose add_section call of the first pass has returned
DoneInFirstPass ==
    IF rpc = "first" THEN 1..(sidx - 1)
    ELSE IF InSecondPass THEN 1..Len(rin.sections)
    ELSE {}

\* C13: a missing image file is fatal: no add_section call over a section
\* that refers to one returns (the image is not skipped), the error leaves
\* create_report, and no document is saved.
C13_MissingImageFatal ==
    /\ \A k \in DoneInFirstPass : ~RefersToMissing(k)
    /\ rpc = "raised" =>
          /\ ~output.saved
          /\ gen[1].raised
          /\ Len(gen) = 1
          /\ RefersToMissing(sidx)

C13_Witness ==
    /\ rpc = "raised"
    /\ sidx = 2
    /\ RefersToMissing(2)
    /\ ~output.saved
    /\ OpsOf(gen[1].cur, "image") # <<>>

\* the images of section sec drawn on pages p.. of the document, in the order
\* drawn, each with its page
RECURSIVE PlacedFrom(_, _, _)
PlacedFrom(doc, sec, p) ==
    IF p > Len(doc.pages) THEN <<>>
    ELSE LET Mine(d) == d.op = "image" /\ d.sec = sec
             here == SelectSeq(doc.pages[p], Mine)
         IN [k \in 1..Len(here) |-> [page |-> p, image |-> here[k]]]
            \o PlacedFrom(doc, sec, p + 1)

PlacedImages(doc, sec) == PlacedFrom(doc, sec, 1)

\* the image references of a section in their given order, each with the row
\* width its descriptor declares (0: not a dict descriptor)
RECURSIVE Refs(_)
Refs(configs) ==
    IF configs = <<>> THEN <<>>
    ELSE (IF Head(configs).kind = "list"
          THEN [k \in 1..Len(Head(configs).paths) |->
                   [path |-> Head(configs).paths[k], row_images |-> 0]]
          ELSE << [path |-> Head(configs).path,
                   row_images |-> Head(configs).row_images] >>)
         \o Refs(Tail(configs))

\* the images placed in the row of the j-th: same page, same top edge
RowOf(placed, j) ==
    {i \in 1..Len(placed) :
        /\ placed[i].page = placed[j].page
        /\ placed[i].image.y + placed[i].image.h = placed[j].image.y + placed[j].image.h}

\* the images drawn for section k are its image references, in their order
DrawnInOrder(doc, k) ==
    LET placed == PlacedImages(doc, k)
        refs == Refs(rin.sections[k].image_configs)
    IN /\ Len(placed) = Len(refs)
       /\ \A j \in 1..Len(refs) : placed[j].image.text = refs[j].path

\* C18 as stated: the images drawn for a section are exactly its image
\* references in their given order, and the row of an image given by a dict
\* descriptor has no more images than the row_images that descriptor declares.
C18_Claim ==
    rpc = "saved" =>
        \A k \in 1..Len(rin.sections) :
            /\ DrawnInOrder(output, k)
            /\ \A j \in 1..Len(Refs(rin.sections[k].image_configs)) :
                   Refs(rin.sections[k].image_configs)[j].row_images > 0 =>
                       Cardinality(RowOf(PlacedImages(output, k), j))
                           <= Refs(rin.sections[k].image_configs)[j].row_images

\* the sections whose header is drawn on the pages, in the order drawn
RECURSIVE HeaderSecs(_)
HeaderSecs(pages) ==
    IF pages = <<>> THEN <<>>
    ELSE [k \in 1..Len(OpsOf(Head(pages), "header")) |-> OpsOf(Head(pages), "header")[k].sec]
         \o HeaderSecs(Tail(pages))

\* everything drawn with the generator: its finished pages and the current one
AllPages(g) == Append(g.pages, g.cur)

\* sections 1..n, each once, in order
InOrder(n) == [k \in 1..n |-> k]

\* save has been called on the generator: the footer was stamped and the
\* last page finished
Saved(g) ==
    /\ g.cur = <<>>
    /\ g.pages # <<>>
    /\ g.pages[Len(g.pages)] # <<>>
    /\ g.pages[Len(g.pages)][Len(g.pages[Len(g.pages)])].op = "page_number"

\* C19: each section is consumed once per pass, in order; nothing is saved
\* before the second pass is over; the first-pass generator is never saved; the
\* document is the second-pass generator's pages, saved after all sections.
C19_TwoPasses ==
    /\ rpc = "first" => HeaderSecs(AllPages(gen[1])) = InOrder(sidx - 1)
    /\ rpc = "second" =>
          /\ HeaderSecs(AllPages(gen[1])) = InOrder(Len(rin.sections))
          /\ HeaderSecs(AllPages(gen[2])) = InOrder(sidx - 1)
    /\ rpc # "saved" => (~output.saved /\ output.pages = <<>>)
    /\ Len(gen) >= 1 => ~Saved(gen[1])
    /\ rpc \in {"first", "second"} => \A k \in 1..Len(gen) : ~Saved(gen[k])
    /\ rpc = "saved" =>
          /\ output.saved
          /\ Saved(gen[2])
          /\ output.pages = gen[2].pages
          /\ HeaderSecs(output.pages) = InOrder(Len(rin.sections))
          /\ HeaderSecs(AllPages(gen[1])) = InOrder(Len(rin.sections))

C19_Witness ==
    /\ rpc = "saved"
    /\ Len(rin.sections) = 2
    /\ Truthy(rin.report_title)
    /\ HeaderSecs(output.pages) = InOrder(2)
    /\ Len(output.pages) > Len(gen[1].pages) + 1
    /\ ~Saved(gen[1])

---------------------------------------------------------------------------
(* PDFReportGenerator as an object: it is made, and its methods are called *)
(* in any order.                                                           *)

\* number of method calls on the generator
MaxCalls == 3

\* the rows _process_row is called with
GenRows ==
    { << <<"w">> >>, << <<"s">> >>, << <<"t">> >>,
      << <<"w">>, <<"s">> >>, << <<"s">>, <<"t">>, <<"w">> >>, << >> }

NoCall == [op |-> "none", row |-> <<>>, n |-> 0]

GenStart ==
    /\ obj = <<>>
    /\ before = <<>>
    /\ call = NoCall
    /\ secs = <<>>

\* a method of the generator is called
Called(op, row) ==
    /\ obj # <<>>
    /\ ~obj.raised
    /\ call.op # "save"
    /\ call.n < MaxCalls
    /\ before' = obj
    /\ call' = [op |-> op, row |-> row, n |-> call.n + 1]

\* lines 17-22: PDFReportGenerator(output_filename, report_title)
GenNew ==
    \E report_title \in ReportTitles :
        /\ obj = <<>>
        /\ obj' = NewGenerator(report_title, 1)
        /\ before' = <<>>
        /\ call' = [op |-> "new", row |-> <<>>, n |-> 0]
        /\ secs' = <<>>

\* lines 24-44
GenTitlePage ==
    /\ Called("add_title_page", <<>>)
    /\ obj' = add_title_page(obj)
    /\ UNCHANGED secs

\* lines 46-67
GenContents ==
    /\ Called("add_table_of_contents", <<>>)
    /\ obj' = add_table_of_contents(obj, secs)
    /\ UNCHANGED secs

\* lines 75-116
GenSection ==
    \E image_configs \in Layouts :
        /\ Called("add_section", <<>>)
        /\ secs' = Append(secs, <<TitleOf(Len(secs) + 1), RecordedPage(obj)>>)
        /\ obj' = SectionBody(obj, TitleOf(Len(secs) + 1), image_configs, Len(secs) + 1)

\* lines 118-153
GenRow ==
    \E image_paths \in GenRows :
        /\ Called("_process_row", image_paths)
        /\ obj' = ProcessRow(obj, image_paths, 0)
        /\ UNCHANGED secs

\* lines 155-158; the document is closed, no call follows
GenSave ==
    /\ Called("save", <<>>)
    /\ obj' = save(obj)
    /\ UNCHANGED secs

---------------------------------------------------------------------------
(* PDFReportGenerator: the claims *)

\* the height of an image scaled to an equal share of the width of a row of n
ScaledHeight(path, n) ==
    (((letter[1] - Pt(100) - Pt(20) * (n - 1)) \div n) * ImageSize(path)[2])
        \div ImageSize(path)[1]

\* the row height: the maximum of the scaled heights
RowHeight(row) == MaxOf([k \in 1..Len(row) |-> ScaledHeight(row[k], Len(row))])

\* the last n things drawn on the current page
LastDrawn(g, n) == SubSeq(g.cur, Len(g.cur) - n + 1, Len(g.cur))

\* the images of the row are the last things drawn, with their top edge at top
RowDrawnAt(g, row, top) ==
    /\ Len(g.cur) >= Len(row)
    /\ \A k \in 1..Len(row) :
           /\ LastDrawn(g, Len(row))[k].op = "image"
           /\ LastDrawn(g, Len(row))[k].text = row[k]
           /\ LastDrawn(g, Len(row))[k].h = ScaledHeight(row[k], Len(row))
           /\ LastDrawn(g, Len(row))[k].y + LastDrawn(g, Len(row))[k].h = top

\* the last call was _process_row with a row of images, and it returned
RowPlaced == call.op = "_process_row" /\ call.row # <<>> /\ ~obj.raised

\* the row of the last call would have crossed the bottom margin
Crosses == before.y_position - RowHeight(call.row) < Pt(50)

\* C16: a row that would cross the bottom margin is drawn at the top of a new
\* page, after one page break (page counter plus one, the old page finished
\* with everything that was on it); a row that fits is drawn at the cursor on
\* the current page, without a page break.
C16_RowPageBreak ==
    RowPlaced =>
        IF Crosses
        THEN /\ obj.current_page = before.current_page + 1
             /\ Len(obj.pages) = Len(before.pages) + 1
             /\ SubSeq(obj.pages, 1, Len(before.pages)) = before.pages
             /\ SubSeq(obj.pages[Len(obj.pages)], 1, Len(before.cur)) = before.cur
             /\ Len(obj.cur) = Len(call.row)
             /\ RowDrawnAt(obj, call.row, obj.height - Pt(50))
             /\ obj.y_position = obj.height - Pt(50) - (RowHeight(call.row) + Pt(30))
        ELSE /\ obj.current_page = before.current_page
             /\ obj.pages = before.pages
             /\ Len(obj.cur) = Len(before.cur) + Len(call.row)
             /\ SubSeq(obj.cur, 1, Len(before.cur)) = before.cur
             /\ RowDrawnAt(obj, call.row, before.y_position)
             /\ obj.y_position = before.y_position - (RowHeight(call.row) + Pt(30))

C16_Witness ==
    /\ RowPlaced
    /\ Crosses
    /\ before.cur # <<>>
    /\ before.y_position < before.height - Pt(50)
    /\ obj.current_page = before.current_page + 1
    /\ RowDrawnAt(obj, call.row, obj.height - Pt(50))
    /\ obj.y_position >= 0

\* C17 as stated: in every state of a generator current_page is at least 1
\* and y_position lies between 0 and the page height minus 50.
C17_Claim ==
    obj # <<>> =>
        /\ obj.current_page >= 1
        /\ obj.y_position >= 0
        /\ obj.y_position <= obj.height - Pt(50)

\* the pages the generator's own page-ending operations have finished: all
\* finished pages but the one canvas.save() finishes
PagesEnded(g) == IF call.op = "save" THEN Len(g.pages) - 1 ELSE Len(g.pages)

\* C21: in every state of a generator current_page is 1 plus the number of
\* pages its page-ending operations (title page, table of contents, header
\* page break, row page break) have finished, and each call moves the counter
\* by exactly the number of pages it ended; save ends no page of its own and
\* leaves the counter at the number of the last page.
C21_PageCounter ==
    obj # <<>> =>
        /\ obj.current_page = 1 + PagesEnded(obj)
        /\ before # <<>> =>
              /\ obj.current_page >= before.current_page
              /\ SubSeq(obj.pages, 1, Len(before.pages)) = before.pages
              /\ call.op = "save" =>
                    /\ obj.current_page = before.current_page
                    /\ Len(obj.pages) = obj.current_page
              /\ call.op \in {"add_title_page", "add_table_of_contents"} =>
                    obj.current_page - before.current_page
                        = (IF call.op = "add_title_page" /\ ~Truthy(obj.report_title)
                           THEN 0 ELSE 1)

C21_Witness ==
    /\ obj # <<>>
    /\ call.op = "add_section"
    /\ ~obj.raised
    /\ before.current_page = 2
    /\ obj.current_page = 4
    /\ Len(obj.pages) = 3
    /\ Len(obj.cur) > 0

---------------------------------------------------------------------------
(* The specifications *)

FetchIdle ==
    /\ FetchStart
    /\ session = [start_date |-> NoneVal, frequency |-> NoneVal, save_format |-> "csv"]

\* the calls of fetch_fred_data of one run
FetchInit ==
    /\ FetchStart
    /\ session \in [start_date : StartDates, frequency : Frequencies,
                     save_format : SaveFormats]
    /\ KeyStart
    /\ ReportStart
    /\ GenStart

FetchNext ==
    \/ CallHit /\ UNCHANGED <<kvars, rvars, gvars>>
    \/ CallReadError /\ UNCHANGED <<kvars, rvars, gvars>>
    \/ CallMiss /\ UNCHANGED <<kvars, rvars, gvars>>
    \/ AttemptOk /\ UNCHANGED <<kvars, rvars, gvars>>
    \/ AttemptRetry /\ UNCHANGED <<kvars, rvars, gvars>>
    \/ AttemptGiveUp /\ UNCHANGED <<kvars, rvars, gvars>>
    \/ ReturnUnsaved /\ UNCHANGED <<kvars, rvars, gvars>>
    \/ SaveOk /\ UNCHANGED <<kvars, rvars, gvars>>
    \/ SaveFail /\ UNCHANGED <<kvars, rvars, gvars>>
    \/ Return /\ UNCHANGED <<kvars, rvars, gvars>>

Spec == FetchInit /\ [][FetchNext]_vars

\* the cache files of two requests
KeyInit ==
    /\ FetchIdle
    /\ ReportStart
    /\ GenStart
    /\ keyIn \in KeyRequests \X KeyRequests
    /\ keyOut = <<>>

KeyNext == DeriveKeys /\ UNCHANGED <<fvars, rvars, gvars>>

SpecKey == KeyInit /\ [][KeyNext]_vars

\* one call of create_report
ReportInit ==
    /\ FetchIdle
    /\ KeyStart
    /\ ReportStart
    /\ GenStart

ReportNext ==
    \/ CreateReport /\ UNCHANGED <<fvars, kvars, gvars>>
    \/ FirstPass /\ UNCHANGED <<fvars, kvars, gvars>>
    \/ NewFinal /\ UNCHANGED <<fvars, kvars, gvars>>
    \/ SecondPass /\ UNCHANGED <<fvars, kvars, gvars>>
    \/ Save /\ UNCHANGED <<fvars, kvars, gvars>>

SpecReport == ReportInit /\ [][ReportNext]_vars

\* one PDFReportGenerator and calls of its methods
GenInit ==
    /\ FetchIdle
    /\ KeyStart
    /\ ReportStart
    /\ GenStart

GenNext ==
    \/ GenNew /\ UNCHANGED <<fvars, kvars, rvars>>
    \/ GenTitlePage /\ UNCHANGED <<fvars, kvars, rvars>>
    \/ GenContents /\ UNCHANGED <<fvars, kvars, rvars>>
    \/ GenSection /\ UNCHANGED <<fvars, kvars, rvars>>
    \/ GenRow /\ UNCHANGED <<fvars, kvars, rvars>>
    \/ GenSave /\ UNCHANGED <<fvars, kvars, rvars>>

SpecGen == GenInit /\ [][GenNext]_vars

====
